---- MODULE Spec2Model ----
(***************************************************************************)
(* Model of 8K_Parser.py: the EPS extractor (extract_eps_value), the       *)
(* directory loop (parse_8k_files), the resolver (prioritize_eps_values)   *)
(* and the report writer (write_to_csv), composed as in main().            *)
(*                                                                         *)
(* Numbers.  An EPS value is an integer number of hundredths: 125 is 1.25, *)
(* -40 is -0.40.  Every literal of the model has at most two fraction      *)
(* digits, so float(), abs(), min(), max(), the comparisons and the ".2f"  *)
(* format are exact on them.                                               *)
(*                                                                         *)
(* Text.  A document text is a sequence of lexical tokens on one line.     *)
(* A token [k |-> kind, v |-> n] is a phrase one of the patterns anchors   *)
(* on ("EPS", "EARNINGS_PER_SHARE", ...), an unsigned decimal literal      *)
(* \d+(\.\d+)? of value n ("num"), one of the characters "-", "(", ")",    *)
(* or any other word ("w").  The characters "-" and "(" are written        *)
(* directly before the token that follows them; all other tokens are       *)
(* followed by white space.                                                *)
(***************************************************************************)
EXTENDS Integers, Sequences, FiniteSets, TLC

VARIABLES
  pc,                   \* position of the running program
  text,                 \* extract_eps_value: its argument
  pattern,              \* extract_eps_value: index of the next pattern of eps_patterns
  positive_eps_values,  \* extract_eps_value: list of candidates >= 0
  negative_eps_values,  \* extract_eps_value: list of candidates < 0
  ret,                  \* extract_eps_value: returned Optional[float]
  directory,            \* parse_8k_files: the listing, a sequence of files
  fidx,                 \* parse_8k_files: index of the next file of the listing
  eps_values,           \* list of (filename, eps_value) observations
  oidx,                 \* prioritize_eps_values: index of the next observation
  prioritized_eps,      \* prioritize_eps_values: the dict, in insertion order
  rule,                 \* prioritize_eps_values: branch taken by the last iteration
  rows                  \* write_to_csv: rows written to the csv file

vars == <<pc, text, pattern, positive_eps_values, negative_eps_values, ret,
          directory, fidx, eps_values, oidx, prioritized_eps, rule, rows>>

extractVars == <<text, pattern, positive_eps_values, negative_eps_values, ret>>
pipelineVars == <<directory, fidx, eps_values, oidx, prioritized_eps, rule, rows>>

----------------------------------------------------------------------------
(* Bounds *)

MaxTextLen == 5   \* longest enumerated text, in tokens
MaxFiles == 2     \* longest directory listing
MaxObs == 3       \* longest observation list given to the resolver alone

----------------------------------------------------------------------------
(* Python values *)

None == <<>>
Some(v) == <<v>>

abs(x) == IF x < 0 THEN -x ELSE x

RECURSIVE min(_)
min(s) ==
  IF Len(s) = 1 THEN s[1]
  ELSE LET m == min(Tail(s)) IN IF m < s[1] THEN m ELSE s[1]

RECURSIVE max(_)
max(s) ==
  IF Len(s) = 1 THEN s[1]
  ELSE LET m == max(Tail(s)) IN IF m > s[1] THEN m ELSE s[1]

----------------------------------------------------------------------------
(* Tokens and texts *)

Tok(kind) == [k |-> kind, v |-> 0]
Num(n) == [k |-> "num", v |-> n]

Minus == Tok("-")
LParen == Tok("(")
RParen == Tok(")")
Word == Tok("w")

IsNum(t) == t.k = "num"

\* the phrases each pattern of eps_patterns anchors on, in list order; every
\* pattern continues with \s*(?:.*?) and the group (-?\d+(?:\.\d+)?).  The
\* optional "cents" suffix of the second and third pattern takes part in no
\* group and holds no anchor, so it changes no match.
eps_patterns ==
  << {"EPS"},
     {"EARNINGS_PER_SHARE", "EARNINGS_PER_COMMON_SHARE"},
     {"LOSS_PER_SHARE", "LOSS_PER_COMMON_SHARE"},
     {"EARNINGS", "EARNINGS_PER_SHARE", "EARNINGS_PER_COMMON_SHARE",
      "DILUTED", "BASIC", "EPS"},
     {"LOSS_PER_SHARE"},
     {"EPS", "EARNINGS_PER_SHARE", "EARNINGS_PER_COMMON_SHARE",
      "LOSS_PER_SHARE", "LOSS_PER_COMMON_SHARE"} >>

SetMin(S) == CHOOSE x \in S : \A y \in S : x <= y

\* the group (-?\d+(?:\.\d+)?) at literal j: the literal, with the "-"
\* written directly before it when there is one
Capture(t, j) ==
  IF j > 1 /\ t[j - 1] = Minus THEN <<Minus, t[j]>> ELSE <<t[j]>>

\* re.findall(pattern, text, re.IGNORECASE) from token pos on: the leftmost
\* anchor that some literal follows, the lazy (?:.*?) up to the first such
\* literal, then the scan resumes after the literal
RECURSIVE findall(_, _, _)
findall(anchors, t, pos) ==
  LET starts == {i \in pos..Len(t) :
                   /\ t[i].k \in anchors
                   /\ \E j \in (i + 1)..Len(t) : IsNum(t[j])}
  IN IF starts = {} THEN <<>>
     ELSE LET i == SetMin(starts)
              j == SetMin({n \in (i + 1)..Len(t) : IsNum(t[n])})
          IN <<Capture(t, j)>> \o findall(anchors, t, j + 1)

\* match.replace('(', '-').replace(')', '')
RECURSIVE replace_parens(_)
replace_parens(m) ==
  IF m = <<>> THEN <<>>
  ELSE LET rest == replace_parens(Tail(m))
       IN IF Head(m) = LParen THEN <<Minus>> \o rest
          ELSE IF Head(m) = RParen THEN rest
          ELSE <<Head(m)>> \o rest

\* float(s) accepts an optionally signed literal and raises ValueError on
\* anything else
parses(s) ==
  \/ Len(s) = 1 /\ IsNum(s[1])
  \/ Len(s) = 2 /\ s[1] = Minus /\ IsNum(s[2])

float(s) == IF Len(s) = 1 THEN s[1].v ELSE -s[2].v

----------------------------------------------------------------------------
(* extract_eps_value *)

NoCandidates == [positive |-> <<>>, negative |-> <<>>, raised |-> FALSE]

\* the inner loop "for match in matches": parse and file every match; a
\* ValueError leaves the loop (and the function) at once
RECURSIVE add_matches(_, _)
add_matches(acc, matches) ==
  IF matches = <<>> \/ acc.raised THEN acc
  ELSE LET s == replace_parens(Head(matches))
       IN IF ~parses(s) THEN [acc EXCEPT !.raised = TRUE]
          ELSE LET eps_value == float(s)
               IN IF eps_value >= 0
                  THEN add_matches([acc EXCEPT !.positive = Append(@, eps_value)],
                                   Tail(matches))
                  ELSE add_matches([acc EXCEPT !.negative = Append(@, eps_value)],
                                   Tail(matches))

\* one iteration of "for pattern in eps_patterns"
scan_pattern(acc, t, k) == add_matches(acc, findall(eps_patterns[k], t, 1))

\* the iterations k, k+1, ... of "for pattern in eps_patterns"
RECURSIVE scan_patterns(_, _, _)
scan_patterns(acc, t, k) ==
  IF k > Len(eps_patterns) \/ acc.raised THEN acc
  ELSE scan_patterns(scan_pattern(acc, t, k), t, k + 1)

\* reduce with the comparison of the magnitudes made non-strict
reduce_nonstrict(positive, negative) ==
  IF positive # <<>> /\ negative # <<>>
  THEN LET min_positive_eps == min(positive)
           max_negative_eps == max(negative)
       IN IF abs(min_positive_eps) <= abs(max_negative_eps)
          THEN Some(min_positive_eps)
          ELSE Some(max_negative_eps)
  ELSE IF positive # <<>> THEN Some(min(positive))
  ELSE IF negative # <<>> THEN Some(max(negative))
  ELSE None

\* the reduction after the loops
reduce(positive, negative) ==
  IF positive # <<>> /\ negative # <<>>
  THEN LET min_positive_eps == min(positive)
           max_negative_eps == max(negative)
       IN IF abs(min_positive_eps) < abs(max_negative_eps)
          THEN Some(min_positive_eps)
          ELSE Some(max_negative_eps)
  ELSE IF positive # <<>> THEN Some(min(positive))
  ELSE IF negative # <<>> THEN Some(max(negative))
  ELSE None

\* the call as a whole: [raised |-> TRUE] for a ValueError, the returned
\* Optional[float] otherwise
extract_eps_value(t) ==
  LET acc == scan_patterns(NoCandidates, t, 1)
  IN IF acc.raised THEN [raised |-> TRUE, value |-> None]
     ELSE [raised |-> FALSE, value |-> reduce(acc.positive, acc.negative)]

----------------------------------------------------------------------------
(* The extractor run step by step on one text *)

Alphabet == {Tok("EPS"), Tok("LOSS_PER_SHARE"), Word, Minus, LParen, RParen,
             Num(40), Num(125)}

RECURSIVE SeqsUpTo(_, _)
SeqsUpTo(S, n) ==
  IF n = 0 THEN {<<>>}
  ELSE LET shorter == SeqsUpTo(S, n - 1)
       IN shorter \cup {Append(s, x) : s \in {q \in shorter : Len(q) = n - 1}, x \in S}

\* "Diluted EPS was $1.25 per share, compared to a loss per share of $(0.40)
\* last year."
ScenarioText ==
  << Tok("DILUTED"), Tok("EPS"), Word, Word, Num(125), Word, Word,
     Tok("LOSS_PER_SHARE"), Word, Word, LParen, Num(40), RParen, Word, Word >>

\* "Basic earnings per share of 2.10"
BasicText == << Tok("BASIC"), Tok("EARNINGS_PER_SHARE"), Word, Num(210) >>

\* "Loss per common share was -1.25 and earnings were 0.40"
CommonText ==
  << Tok("LOSS_PER_COMMON_SHARE"), Word, Minus, Num(125), Word,
     Tok("EARNINGS"), Word, Num(40) >>

Texts == SeqsUpTo(Alphabet, MaxTextLen) \cup {ScenarioText, BasicText, CommonText}

InitExtract ==
  /\ pc = "extract"
  /\ text \in Texts
  /\ pattern = 1
  /\ positive_eps_values = <<>>
  /\ negative_eps_values = <<>>
  /\ ret = None
  /\ directory = <<>>
  /\ fidx = 1
  /\ eps_values = <<>>
  /\ oidx = 1
  /\ prioritized_eps = <<>>
  /\ rule = "none"
  /\ rows = <<>>

\* lines 32-39, one pattern
ScanPattern ==
  /\ pc = "extract"
  /\ pattern <= Len(eps_patterns)
  /\ LET acc == scan_pattern([positive |-> positive_eps_values,
                              negative |-> negative_eps_values,
                              raised |-> FALSE], text, pattern)
     IN /\ positive_eps_values' = acc.positive
        /\ negative_eps_values' = acc.negative
        /\ pc' = IF acc.raised THEN "raised" ELSE pc
        /\ pattern' = IF acc.raised THEN pattern ELSE pattern + 1
  /\ UNCHANGED <<text, ret>>
  /\ UNCHANGED pipelineVars

\* lines 41-53
Return ==
  /\ pc = "extract"
  /\ pattern > Len(eps_patterns)
  /\ ret' = reduce(positive_eps_values, negative_eps_values)
  /\ pc' = "returned"
  /\ UNCHANGED <<text, pattern, positive_eps_values, negative_eps_values>>
  /\ UNCHANGED pipelineVars

NextExtract == ScanPattern \/ Return

SpecExtract == InitExtract /\ [][NextExtract]_vars

----------------------------------------------------------------------------
(* Python dict, kept as the sequence of its (key, value) items in insertion
   order *)

DictKeys(d) == {d[i][1] : i \in DOMAIN d}

DictHas(d, key) == key \in DictKeys(d)

DictGet(d, key) == d[CHOOSE i \in DOMAIN d : d[i][1] = key][2]

\* DictSet adding an item even when the key is present
DictSet_append(d, key, value) == Append(d, <<key, value>>)

\* d[key] = value
DictSet(d, key, value) ==
  IF DictHas(d, key)
  THEN [i \in DOMAIN d |-> IF d[i][1] = key THEN <<key, value>> ELSE d[i]]
  ELSE Append(d, <<key, value>>)

----------------------------------------------------------------------------
(* str(), the "in" test on strings, and the ".2f" format *)

Digit == <<"0", "1", "2", "3", "4", "5", "6", "7", "8", "9">>

\* the decimal digits of a natural number, as characters
RECURSIVE digits(_)
digits(n) == IF n < 10 THEN <<Digit[n + 1]>> ELSE digits(n \div 10) \o <<Digit[(n % 10) + 1]>>

\* str(eps_value).lower(): the shortest repr of the float, e.g. "1.5", "-0.1",
\* "150.0", as a sequence of characters (lower() changes none of them)
str_lower(x) ==
  LET a == abs(x)
      frac == a % 100
  IN (IF x < 0 THEN <<"-">> ELSE <<>>)
     \o digits(a \div 100) \o <<".">>
     \o (IF frac % 10 = 0 THEN <<Digit[(frac \div 10) + 1]>>
         ELSE <<Digit[(frac \div 10) + 1], Digit[(frac % 10) + 1]>>)

\* sub in s
contains(s, sub) ==
  \E i \in 1..(Len(s) - Len(sub) + 1) : SubSeq(s, i, i + Len(sub) - 1) = sub

NetEps == <<"n", "e", "t", " ", "e", "p", "s">>
TotalEps == <<"t", "o", "t", "a", "l", " ", "e", "p", "s">>

\* f"{x:.2f}" for x >= 0
format_2f(x) ==
  ToString(x \div 100) \o "." \o Digit[((x % 100) \div 10) + 1] \o Digit[(x % 10) + 1]

----------------------------------------------------------------------------
(* prioritize_eps_values *)

\* prioritize_rule without its last elif
prioritize_rule_no4(eps_value, current_value) ==
  IF eps_value >= 0 /\ current_value < 0
  THEN [rule |-> "1", value |-> eps_value]
  ELSE IF abs(eps_value) < abs(current_value)
  THEN [rule |-> "2", value |-> eps_value]
  ELSE IF eps_value >= 0 /\ current_value >= 0
  THEN [rule |-> "3", value |-> min(<<current_value, eps_value>>)]
  ELSE [rule |-> "keep", value |-> current_value]

\* prioritize_rule without the elif on the magnitudes
prioritize_rule_no2(eps_value, current_value) ==
  IF eps_value >= 0 /\ current_value < 0
  THEN [rule |-> "1", value |-> eps_value]
  ELSE IF eps_value >= 0 /\ current_value >= 0
  THEN [rule |-> "3", value |-> min(<<current_value, eps_value>>)]
  ELSE IF eps_value < 0 /\ current_value >= 0
  THEN [rule |-> "4", value |-> eps_value]
  ELSE [rule |-> "keep", value |-> current_value]

\* prioritize_rule taking max where the code takes min
prioritize_rule_max(eps_value, current_value) ==
  IF eps_value >= 0 /\ current_value < 0
  THEN [rule |-> "1", value |-> eps_value]
  ELSE IF abs(eps_value) < abs(current_value)
  THEN [rule |-> "2", value |-> eps_value]
  ELSE IF eps_value >= 0 /\ current_value >= 0
  THEN [rule |-> "3", value |-> max(<<current_value, eps_value>>)]
  ELSE IF eps_value < 0 /\ current_value >= 0
  THEN [rule |-> "4", value |-> eps_value]
  ELSE [rule |-> "keep", value |-> current_value]

\* the if/elif chain for a filename already in the dict: the branch taken and
\* the value the dict holds for the filename afterwards
prioritize_rule(eps_value, current_value) ==
  IF eps_value >= 0 /\ current_value < 0
  THEN [rule |-> "1", value |-> eps_value]
  ELSE IF abs(eps_value) < abs(current_value)
  THEN [rule |-> "2", value |-> eps_value]
  ELSE IF eps_value >= 0 /\ current_value >= 0
  THEN [rule |-> "3", value |-> min(<<current_value, eps_value>>)]
  ELSE IF \E p \in {NetEps, TotalEps} : contains(str_lower(eps_value), p)
  THEN [rule |-> "net_total", value |-> eps_value]
  ELSE IF eps_value < 0 /\ current_value >= 0
  THEN [rule |-> "4", value |-> eps_value]
  ELSE [rule |-> "keep", value |-> current_value]

\* prioritize_step taking current_value from the item inserted last
prioritize_step_last(d, filename, eps_value) ==
  IF ~DictHas(d, filename)
  THEN [rule |-> "unseen", dict |-> DictSet(d, filename, eps_value)]
  ELSE LET r == prioritize_rule(eps_value, d[Len(d)][2])
       IN [rule |-> r.rule,
           dict |-> IF r.rule = "keep" THEN d ELSE DictSet(d, filename, r.value)]

\* one iteration of "for filename, eps_value in eps_values"
prioritize_step(d, filename, eps_value) ==
  IF ~DictHas(d, filename)
  THEN [rule |-> "unseen", dict |-> DictSet(d, filename, eps_value)]
  ELSE LET r == prioritize_rule(eps_value, DictGet(d, filename))
       IN [rule |-> r.rule,
           dict |-> IF r.rule = "keep" THEN d ELSE DictSet(d, filename, r.value)]

\* the whole call, on the observations from index i on
RECURSIVE prioritize_from(_, _, _)
prioritize_from(d, obs, i) ==
  IF i > Len(obs) THEN d
  ELSE prioritize_from(prioritize_step(d, obs[i][1], obs[i][2]).dict, obs, i + 1)

prioritize_eps_values(obs) == prioritize_from(<<>>, obs, 1)

----------------------------------------------------------------------------
(* write_to_csv *)

csv_row(item) ==
  IF item[2] >= 0 THEN <<item[1], format_2f(item[2])>>
  ELSE <<item[1], "(" \o format_2f(abs(item[2])) \o ")">>

write_to_csv(d) == <<<<"Filename", "EPS">>>> \o [i \in DOMAIN d |-> csv_row(d[i])]

----------------------------------------------------------------------------
(* main(): parse_8k_files, prioritize_eps_values, write_to_csv *)

HtmlNames == {"a.html", "b.html", "c.html"}
Filenames == HtmlNames \cup {"notes.txt"}

\* filename.endswith(".html")
endswith_html(filename) == filename \in HtmlNames

\* "Net income rose" ; "EPS -0.40" ; "EPS (1.23)"
NoMatchText == <<Word, Word, Word>>
MinusText == <<Tok("EPS"), Minus, Num(40)>>
ParenText == <<Tok("EPS"), LParen, Num(123), RParen>>

DocTexts == {ScenarioText, BasicText, NoMatchText, MinusText, ParenText}

\* os.listdir(directory): distinct names, in any order
Listings ==
  {l \in SeqsUpTo([filename : Filenames, text : DocTexts], MaxFiles) :
     \A i, j \in DOMAIN l : i # j => l[i].filename # l[j].filename}

\* parse_append recording 0.0 for a document without a result
parse_append_default(list, filename, eps_value) ==
  Append(list, <<filename, IF eps_value # None THEN eps_value[1] ELSE 0>>)

\* "if eps_value is not None: eps_values.append((filename, eps_value))"
parse_append(list, filename, eps_value) ==
  IF eps_value # None THEN Append(list, <<filename, eps_value[1]>>) ELSE list

Init ==
  /\ pc = "parse"
  /\ directory \in Listings
  /\ fidx = 1
  /\ eps_values = <<>>
  /\ oidx = 1
  /\ prioritized_eps = <<>>
  /\ rule = "none"
  /\ rows = <<>>
  /\ text = <<>>
  /\ pattern = 1
  /\ positive_eps_values = <<>>
  /\ negative_eps_values = <<>>
  /\ ret = None

\* parse_8k_files, one iteration of "for filename in os.listdir(directory)"
ListFile ==
  /\ pc = "parse"
  /\ fidx <= Len(directory)
  /\ LET file == directory[fidx]
         r == extract_eps_value(file.text)
     IN IF ~endswith_html(file.filename)
        THEN UNCHANGED <<pc, eps_values>>
        ELSE IF r.raised
        THEN pc' = "raised" /\ UNCHANGED eps_values
        ELSE /\ eps_values' = parse_append(eps_values, file.filename, r.value)
             /\ UNCHANGED pc
  /\ fidx' = fidx + 1
  /\ UNCHANGED <<directory, oidx, prioritized_eps, rule, rows>>
  /\ UNCHANGED extractVars

\* parse_8k_files returns and main() calls prioritize_eps_values
ParseReturn ==
  /\ pc = "parse"
  /\ fidx > Len(directory)
  /\ pc' = "prioritize"
  /\ prioritized_eps' = <<>>
  /\ oidx' = 1
  /\ UNCHANGED <<directory, fidx, eps_values, rule, rows>>
  /\ UNCHANGED extractVars

\* prioritize_eps_values, one iteration of its loop
PrioritizeStep ==
  /\ pc = "prioritize"
  /\ oidx <= Len(eps_values)
  /\ LET r == prioritize_step(prioritized_eps, eps_values[oidx][1], eps_values[oidx][2])
     IN /\ prioritized_eps' = r.dict
        /\ rule' = r.rule
  /\ oidx' = oidx + 1
  /\ UNCHANGED <<pc, directory, fidx, eps_values, rows>>
  /\ UNCHANGED extractVars

\* prioritize_eps_values returns and main() calls write_to_csv
PrioritizeReturn ==
  /\ pc = "prioritize"
  /\ oidx > Len(eps_values)
  /\ pc' = "write"
  /\ UNCHANGED <<directory, fidx, eps_values, oidx, prioritized_eps, rule, rows>>
  /\ UNCHANGED extractVars

WriteCsv ==
  /\ pc = "write"
  /\ rows' = write_to_csv(prioritized_eps)
  /\ pc' = "done"
  /\ UNCHANGED <<directory, fidx, eps_values, oidx, prioritized_eps, rule>>
  /\ UNCHANGED extractVars

Next == ListFile \/ ParseReturn \/ PrioritizeStep \/ PrioritizeReturn \/ WriteCsv

Spec == Init /\ [][Next]_vars

----------------------------------------------------------------------------
(* The resolver run on an arbitrary list of observations *)

Ids == {"a.html", "b.html"}
Values == {-150, -10, 0, 10, 150}

Observations == SeqsUpTo(Ids \X Values, MaxObs)

InitResolve ==
  /\ pc = "prioritize"
  /\ eps_values \in Observations
  /\ oidx = 1
  /\ prioritized_eps = <<>>
  /\ rule = "none"
  /\ rows = <<>>
  /\ directory = <<>>
  /\ fidx = 1
  /\ text = <<>>
  /\ pattern = 1
  /\ positive_eps_values = <<>>
  /\ negative_eps_values = <<>>
  /\ ret = None

NextResolve == PrioritizeStep \/ PrioritizeReturn \/ WriteCsv

SpecResolve == InitResolve /\ [][NextResolve]_vars

----------------------------------------------------------------------------
(* Properties of the extractor, under SpecExtract *)

Range(s) == {s[i] : i \in DOMAIN s}

SetMax(S) == CHOOSE x \in S : \A y \in S : y <= x

\* the candidates gathered by the two loops
Gathered == Range(positive_eps_values) \cup Range(negative_eps_values)

ReferenceReduction(C) ==
  LET nonneg == {c \in C : c >= 0}
      neg == {c \in C : c < 0}
  IN IF C = {} THEN None
     ELSE IF neg = {} THEN Some(SetMin(nonneg))
     ELSE IF nonneg = {} THEN Some(SetMax(neg))
     ELSE LET p == SetMin(nonneg)
              n == SetMax(neg)
          IN IF abs(p) < abs(n) THEN Some(p) ELSE Some(n)

AnchorKinds == UNION Range(eps_patterns)

\* the text has exactly one decimal literal, and a phrase of some pattern
\* comes before it
OneMention(t) ==
  /\ Cardinality({j \in DOMAIN t : IsNum(t[j])}) = 1
  /\ LET j == CHOOSE n \in DOMAIN t : IsNum(t[n])
     IN \E i \in 1..(j - 1) : t[i].k \in AnchorKinds

\* the value the one mention of t denotes: negative with a leading "-" and
\* negative when wrapped in parentheses
MentionedValue(t) ==
  LET j == CHOOSE n \in DOMAIN t : IsNum(t[n])
      signed == j > 1 /\ t[j - 1] = Minus
      wrapped == j > 1 /\ j < Len(t) /\ t[j - 1] = LParen /\ t[j + 1] = RParen
  IN IF signed \/ wrapped THEN -t[j].v ELSE t[j].v

\* C3: on a text with exactly one numeric EPS mention extract_eps_value
\* returns the mentioned value with its sign, "-1.23" and "(1.23)" both as
\* -1.23.
C3_SignCorrect ==
  (pc = "returned" /\ OneMention(text)) => ret = Some(MentionedValue(text))

----------------------------------------------------------------------------
(* Properties of the whole run, under Spec *)

ObservedIds == {eps_values[i][1] : i \in DOMAIN eps_values}

\* C4: for the scenario text the patterns gather the candidates 1.25 and
\* -0.40, extract_eps_value returns -0.40, and the csv row of the document
\* is (filename, "(0.40)").
C4_Scenario ==
  pc = "done" =>
    \A i \in DOMAIN directory :
      (directory[i].text = ScenarioText /\ endswith_html(directory[i].filename)) =>
        LET acc == scan_patterns(NoCandidates, ScenarioText, 1)
        IN /\ Range(acc.positive) \cup Range(acc.negative) = {125, -40}
           /\ <<directory[i].filename, -40>> \in Range(eps_values)
           /\ <<directory[i].filename, "(0.40)">> \in Range(rows)

\* some pattern matches somewhere in t
HasCandidate(t) == \E k \in DOMAIN eps_patterns : findall(eps_patterns[k], t, 1) # <<>>

\* the files the loop of parse_8k_files has gone through
Listed == {directory[i] : i \in 1..(fidx - 1)}

\* C7: a document without a candidate raises nothing and adds no
\* observation, so that its filename is neither in the resolver's input nor
\* in the resolved mapping; every filename in the input or in the mapping is
\* that of a listed .html document with a candidate.
C7_NoMatchExcluded ==
  /\ pc # "raised"
  /\ \A file \in Range(directory) :
       ~HasCandidate(file.text) =>
         file.filename \notin ObservedIds \cup DictKeys(prioritized_eps)
  /\ \A id \in ObservedIds \cup DictKeys(prioritized_eps) :
       \E file \in Listed :
         /\ file.filename = id
         /\ endswith_html(id)
         /\ HasCandidate(file.text)

\* the run ended with one .html document skipped for want of a candidate and
\* another one in the mapping
C7_Witness ==
  /\ pc = "done"
  /\ \E file \in Listed : endswith_html(file.filename) /\ ~HasCandidate(file.text)
  /\ prioritized_eps # <<>>

----------------------------------------------------------------------------
(* Properties of the resolver, under SpecResolve *)

\* the observations the loop has gone through, and the values among them
\* that belong to one id
Processed == {eps_values[i] : i \in 1..(oidx - 1)}
ValuesOf(id) == {o[2] : o \in {q \in Processed : q[1] = id}}

ReferenceRule(value, current) ==
  IF value >= 0 /\ current < 0 THEN value
  ELSE IF abs(value) < abs(current) THEN value
  ELSE IF value >= 0 /\ current >= 0 THEN (IF current <= value THEN current ELSE value)
  ELSE IF value < 0 /\ current >= 0 THEN value
  ELSE current

\* C2: an observation (id, value) on an id whose stored value is current
\* stores the value of the first matching rule among (1) value >= 0 and
\* current < 0: value, (2) |value| < |current|: value, (3) both >= 0:
\* min(current, value), (4) value < 0 and current >= 0: value, (5) current;
\* an observation on an unseen id stores value.
C2_Rules ==
  [][(pc = "prioritize" /\ oidx <= Len(eps_values)) =>
       LET id == eps_values[oidx][1]
           value == eps_values[oidx][2]
       IN /\ DictHas(prioritized_eps', id)
          /\ DictGet(prioritized_eps', id) =
               IF DictHas(prioritized_eps, id)
               THEN ReferenceRule(value, DictGet(prioritized_eps, id))
               ELSE value]_vars

\* rule (4) replaced a stored non-negative value by a negative one of larger
\* magnitude
C2_Witness ==
  /\ pc = "prioritize"
  /\ oidx = 3
  /\ rule = "4"
  /\ eps_values[1][1] = eps_values[2][1]
  /\ abs(eps_values[2][2]) > abs(eps_values[1][2])
  /\ DictGet(prioritized_eps, eps_values[2][1]) = eps_values[2][2]

\* C5: after any prefix of the observations the mapping has exactly one
\* entry for each id of the prefix and none for any other id.
C5_OneValuePerId ==
  /\ DictKeys(prioritized_eps) = {o[1] : o \in Processed}
  /\ \A i, j \in DOMAIN prioritized_eps :
       prioritized_eps[i][1] = prioritized_eps[j][1] => i = j

\* three observations, two of them on the same id, left two entries
C5_Witness ==
  /\ oidx = 4
  /\ Cardinality({o[1] : o \in Processed}) = 2
  /\ Len(prioritized_eps) = 2

ObsA1 == << <<"a.html", 150>>, <<"a.html", -10>> >>
ObsA2 == << <<"a.html", -10>>, <<"a.html", 150>> >>

\* C6 as stated: on [(A,1.50), (A,-0.10)] the rule "value < 0, current >= 0"
\* fires and A ends at -0.10; on [(A,-0.10), (A,1.50)] the rule "value >= 0,
\* current < 0" fires and A ends at 1.50.
C6_Original ==
  pc = "write" =>
    /\ eps_values = ObsA1 => (rule = "4" /\ DictGet(prioritized_eps, "a.html") = -10)
    /\ eps_values = ObsA2 => (rule = "1" /\ DictGet(prioritized_eps, "a.html") = 150)

\* C6: on [(A,1.50), (A,-0.10)] the rule "|value| < |current|" fires and A
\* ends at -0.10; on [(A,-0.10), (A,1.50)] the rule "value >= 0, current < 0"
\* fires and A ends at 1.50.
C6_OrderSensitive ==
  pc = "write" =>
    /\ eps_values = ObsA1 => (rule = "2" /\ DictGet(prioritized_eps, "a.html") = -10)
    /\ eps_values = ObsA2 => (rule = "1" /\ DictGet(prioritized_eps, "a.html") = 150)

C6_Witness ==
  /\ pc = "write"
  /\ eps_values = ObsA1
  /\ prioritized_eps = << <<"a.html", -10>> >>

\* the observations of s on one id, in order
Projection(s, id) == SelectSeq(s, LAMBDA o : o[1] = id)

\* the orders of eps_values that keep the order of the observations of each id
Interleavings ==
  {s \in {[i \in DOMAIN eps_values |-> eps_values[p[i]]] :
            p \in Permutations(DOMAIN eps_values)} :
     \A id \in Ids : Projection(s, id) = Projection(eps_values, id)}

\* a dict as a function on its keys
AsFunction(d) == [key \in DictKeys(d) |-> DictGet(d, key)]

\* C8: an observation on one id leaves the stored value of every other id
\* unchanged, and every interleaving of the same per-id observation
\* sequences resolves to the same mapping.
C8_Independent ==
  /\ [][\A key \in DictKeys(prioritized_eps) :
          (oidx <= Len(eps_values) /\ key # eps_values[oidx][1]) =>
            /\ DictHas(prioritized_eps', key)
            /\ DictGet(prioritized_eps', key) = DictGet(prioritized_eps, key)]_vars
  /\ [](pc = "write" =>
          \A s \in Interleavings :
            AsFunction(prioritize_eps_values(s)) = AsFunction(prioritized_eps))

\* the resolver finished a list that mixes two ids, one of them observed
\* twice, and that has another interleaving
C8_Witness ==
  /\ pc = "write"
  /\ Len(eps_values) = 3
  /\ Len(prioritized_eps) = 2
  /\ Cardinality(Interleavings) > 1

\* C10: the stored value of an id is one of the values observed for it; it
\* is their minimum when they are all non-negative and their maximum when
\* they are all negative, whatever their order.
C10_ClosestToZero ==
  \A id \in DictKeys(prioritized_eps) :
    LET seen == ValuesOf(id)
        stored == DictGet(prioritized_eps, id)
    IN /\ stored \in seen
       /\ (\A v \in seen : v >= 0) => stored = SetMin(seen)
       /\ (\A v \in seen : v < 0) => stored = SetMax(seen)

\* three distinct non-negative values of one id, the smallest in the middle
C10_Witness ==
  /\ pc = "write"
  /\ Len(eps_values) = 3
  /\ Len(prioritized_eps) = 1
  /\ eps_values[2][2] >= 0
  /\ eps_values[2][2] < eps_values[1][2]
  /\ eps_values[2][2] < eps_values[3][2]
  /\ prioritized_eps[1][2] = eps_values[2][2]

====
